---------------------------- MODULE Spec2Model ----------------------------
(***************************************************************************)
(* A model of bin-reminder (src/src/main.rs): one run of main fetches the  *)
(* schedule text, selects the line of the configured address, splits it    *)
(* into 5-character coded pairs, decodes every pair into (date, bin),      *)
(* looks for tomorrow's date and sends at most one notification.           *)
(*                                                                         *)
(* Characters are one-character strings, a Rust String or &[char] is a     *)
(* sequence of characters, a Result is a record tagged by "kind"           *)
(* ("Ok" / "Err"), and a panic (which unwinds and ends the process) is the *)
(* third outcome "Panic".  Error descriptions and bin labels are strings.  *)
(***************************************************************************)
EXTENDS Integers, Sequences, FiniteSets, TLC

VARIABLES
    pc,              \* position of main: see MainPositions
    client,          \* outcome of initiate_client: "none" | "built" | "failed"
    site_response,   \* Result of query_bin_data, NotYet before it ran
    coded_schedule,  \* Result of get_coded_schedule, NotYet before it ran
    schedule,        \* Result of the decode_data map in get_schedule
    now,             \* the date Local::now().date_naive() gave get_tomorrows_bin
    result,          \* Result<Option<String>> of get_bin
    sent,            \* the messages handed to send_notification, in order
    call,            \* a function called on its own (as the tests do), or NoCall
    ret              \* what that call returned, NotYet before it returns

vars == <<pc, client, site_response, coded_schedule, schedule, now,
          result, sent, call, ret>>

main_vars == <<pc, client, site_response, coded_schedule, schedule,
               now, result, sent>>

-----------------------------------------------------------------------------
(* Results, options and panics *)

Ok(v) == [kind |-> "Ok", value |-> v]

Err(e) == [kind |-> "Err", error |-> e]

Panic == [kind |-> "Panic"]

Some(v) == [some |-> TRUE, value |-> v]

None == [some |-> FALSE]

NotYet == [kind |-> "NotYet"]

NoCall == [fn |-> "none"]

-----------------------------------------------------------------------------
(* Characters and integer parsing (core::num, as used by decode_date) *)

DecimalChars == <<"0", "1", "2", "3", "4", "5", "6", "7", "8", "9">>

UpperChars == <<"A", "B", "C", "D", "E", "F", "G", "H", "I", "J", "K", "L", "M",
                "N", "O", "P", "Q", "R", "S", "T", "U", "V", "W", "X", "Y", "Z">>

LowerChars == <<"a", "b", "c", "d", "e", "f", "g", "h", "i", "j", "k", "l", "m",
                "n", "o", "p", "q", "r", "s", "t", "u", "v", "w", "x", "y", "z">>

IndexOf(c, s) == CHOOSE i \in 1..Len(s) : s[i] = c

Occurs(c, s) == \E i \in 1..Len(s) : s[i] = c

\* char::to_digit(radix): the digit's value, or -1 for None.
to_digit(c, radix) ==
    LET v == IF Occurs(c, DecimalChars) THEN IndexOf(c, DecimalChars) - 1
             ELSE IF Occurs(c, LowerChars) THEN IndexOf(c, LowerChars) + 9
             ELSE IF Occurs(c, UpperChars) THEN IndexOf(c, UpperChars) + 9
             ELSE -1
    IN IF v < radix THEN v ELSE -1

InvalidDigit == "invalid digit found in string"

EmptyString == "cannot parse integer from empty string"

\* The digit loop of from_str_radix: acc is the value so far, and the digits
\* are added (positive) or subtracted (negative).  The checked arithmetic of
\* the loop cannot overflow at any call site of this program (at most four
\* digits, of radix 36 or 10: below 36^4 = 1679616 < 2^31), so the overflow
\* errors are left out.
RECURSIVE accumulate(_, _, _, _)
accumulate(digits, radix, positive, acc) ==
    IF digits = <<>> THEN Ok(acc)
    ELSE LET d == to_digit(Head(digits), radix)
         IN IF d < 0 THEN Err(InvalidDigit)
            ELSE accumulate(Tail(digits), radix, positive,
                            IF positive THEN acc * radix + d ELSE acc * radix - d)

\* <int>::from_str_radix: an optional sign ('-' only for a signed type), then
\* at least one digit; a lone sign is an invalid digit.
from_str_radix(src, radix, signed) ==
    IF src = <<>> THEN Err(EmptyString)
    ELSE IF Len(src) = 1 /\ Head(src) \in {"+", "-"} THEN Err(InvalidDigit)
    ELSE IF Head(src) = "+" THEN accumulate(Tail(src), radix, TRUE, 0)
    ELSE IF Head(src) = "-" /\ signed THEN accumulate(Tail(src), radix, FALSE, 0)
    ELSE accumulate(src, radix, TRUE, 0)

i32_from_str_radix(src, radix) == from_str_radix(src, radix, TRUE)

\* str::parse::<i32>() and str::parse::<u32>()
parse_i32(src) == from_str_radix(src, 10, TRUE)

parse_u32(src) == from_str_radix(src, 10, FALSE)

RECURSIVE digits_of(_)
digits_of(n) ==
    IF n < 10 THEN <<DecimalChars[n + 1]>>
    ELSE Append(digits_of(n \div 10), DecimalChars[(n % 10) + 1])

\* i32::to_string: the decimal digits, with a '-' before a negative value.
to_string(n) == IF n < 0 THEN <<"-">> \o digits_of(-n) ELSE digits_of(n)

\* &s[a..b] on an ASCII str: a view of bytes a..b-1, and a panic when the
\* range does not lie inside the string.
slice_in_range(s, a, b) == a <= b /\ b <= Len(s)

slice(s, a, b) == SubSeq(s, a + 1, b)

-----------------------------------------------------------------------------
(* Calendar dates (chrono::NaiveDate) *)

is_leap_year(y) == (y % 4 = 0) /\ ((y % 100 # 0) \/ (y % 400 = 0))

days_in_month(y, m) ==
    IF m = 2 THEN (IF is_leap_year(y) THEN 29 ELSE 28)
    ELSE IF m \in {4, 6, 9, 11} THEN 30
    ELSE 31

Date(y, m, d) == [year |-> y, month |-> m, day |-> d]

\* A faulty from_ymd_opt that allows 31 days in every month (it is what
\* C5_SixDigitsDecode is shown to tell from the real one).
from_ymd_opt_any_month_31(y, m, d) ==
    IF m >= 1 /\ m <= 12 /\ d >= 1 /\ d <= 31
    THEN Some(Date(y, m, d))
    ELSE None

\* NaiveDate::from_ymd_opt: None unless the triple is a calendar date.
from_ymd_opt(y, m, d) ==
    IF m >= 1 /\ m <= 12 /\ d >= 1 /\ d <= days_in_month(y, m)
    THEN Some(Date(y, m, d))
    ELSE None

\* NaiveDate + Duration::days(1)
add_one_day(date) ==
    IF date.day < days_in_month(date.year, date.month)
    THEN Date(date.year, date.month, date.day + 1)
    ELSE IF date.month < 12 THEN Date(date.year, date.month + 1, 1)
    ELSE Date(date.year + 1, 1, 1)

-----------------------------------------------------------------------------
(* The decoders *)

DateConversionFailure == "Date conversion failure"

decode_date(coded_date) ==
    LET parsed == i32_from_str_radix(coded_date, 36)
    IN IF parsed.kind = "Err" THEN parsed
       ELSE
       LET date == to_string(parsed.value)
       IN IF ~slice_in_range(date, 0, 2) THEN Panic
          ELSE
          LET year == parse_i32(<<"2", "0">> \o slice(date, 0, 2))
          IN IF year.kind = "Err" THEN year
             ELSE IF ~slice_in_range(date, 2, 4) THEN Panic
             ELSE
             LET month == parse_u32(slice(date, 2, 4))
             IN IF month.kind = "Err" THEN month
                ELSE IF ~slice_in_range(date, 4, 6) THEN Panic
                ELSE
                LET day == parse_u32(slice(date, 4, 6))
                IN IF day.kind = "Err" THEN day
                   ELSE
                   LET formatted_date ==
                           from_ymd_opt(year.value, month.value, day.value)
                   IN IF formatted_date.some
                      THEN Ok(formatted_date.value)
                      ELSE Err(DateConversionFailure)

\* A faulty format_bin whose fallback label leaves the code out (it is what
\* C10_UnknownBinsAreLabelled is shown to tell from the real one).
format_bin_without_code(bin_code) ==
    CASE bin_code = "B" -> "Black Bin"
      [] bin_code = "G" -> "Green Bin"
      [] bin_code = "R" -> "Brown Bin"
      [] OTHER -> "Unknown Bin"

\* format_bin: the display label of a bin code; total.
format_bin(bin_code) ==
    CASE bin_code = "B" -> "Black Bin"
      [] bin_code = "G" -> "Green Bin"
      [] bin_code = "R" -> "Brown Bin"
      [] OTHER -> "Unknown Bin '" \o bin_code \o "'"

\* decode_data: a coded pair <<coded_date, bin_code>> to <<date, bin>>; the
\* `?` returns decode_date's error, and a panic of decode_date unwinds
\* through it.
decode_data(coded_data) ==
    LET decoded_date == decode_date(coded_data[1])
    IN IF decoded_date.kind = "Ok"
       THEN Ok(<<decoded_date.value, format_bin(coded_data[2])>>)
       ELSE decoded_date

\* .map(decode_data).collect::<Result<Vec<_>, _>>(): the pairs are decoded in
\* order and the first Err ends the iteration and is the result; a panic
\* ends it too.
RECURSIVE collect_decoded(_, _)
collect_decoded(pairs, acc) ==
    IF pairs = <<>> THEN Ok(acc)
    ELSE LET item == decode_data(Head(pairs))
         IN IF item.kind = "Ok"
            THEN collect_decoded(Tail(pairs), Append(acc, item.value))
            ELSE item

-----------------------------------------------------------------------------
(* The token extractor *)

LengthError == "Coded String length not a multiple of 5"

SplitError == "Failed to split on ','"

NotFoundError == "No result found for specified property"

\* env!("ADDRESS_CODE"): fixed when the program is built; any key without a
\* line break stands for it.
ADDRESS_CODE == <<"A", "1">>

\* get_coded_pair: chunk.get(0..4) and chunk.get(4) are None on a short chunk.
get_coded_pair(chunk) ==
    IF Len(chunk) < 4 THEN Err(LengthError)
    ELSE IF Len(chunk) < 5 THEN Err(LengthError)
    ELSE Ok(<<SubSeq(chunk, 1, 4), chunk[5]>>)

\* str::split(pat): the pieces between the occurrences of the one-character
\* pattern; always at least one piece.
RECURSIVE split(_, _, _)
split(s, pat, piece) ==
    IF s = <<>> THEN <<piece>>
    ELSE IF Head(s) = pat THEN <<piece>> \o split(Tail(s), pat, <<>>)
    ELSE split(Tail(s), pat, Append(piece, Head(s)))

\* slice::chunks_exact(n) in the place of chunks(n): the shorter last chunk is
\* left out (it is what C3_GroupsOfFive is shown to tell from chunks).
RECURSIVE chunks_exact(_, _)
chunks_exact(s, n) ==
    IF Len(s) < n THEN <<>>
    ELSE <<SubSeq(s, 1, n)>> \o chunks_exact(SubSeq(s, n + 1, Len(s)), n)

\* slice::chunks(n): consecutive chunks of n elements, the last one shorter
\* when the length is not a multiple of n; none for an empty slice.
RECURSIVE chunks(_, _)
chunks(s, n) ==
    IF s = <<>> THEN <<>>
    ELSE IF Len(s) <= n THEN <<s>>
    ELSE <<SubSeq(s, 1, n)>> \o chunks(SubSeq(s, n + 1, Len(s)), n)

\* .map(get_coded_pair).collect::<Result<Vec<_>, _>>()
RECURSIVE collect_pairs(_, _)
collect_pairs(cs, acc) ==
    IF cs = <<>> THEN Ok(acc)
    ELSE LET item == get_coded_pair(Head(cs))
         IN IF item.kind = "Ok"
            THEN collect_pairs(Tail(cs), Append(acc, item.value))
            ELSE item

ChunkSize == 5

get_coded_pairs(coded_data) ==
    LET fields == split(coded_data, ",", <<>>)
    IN IF Len(fields) < 2 THEN Err(SplitError)
       ELSE collect_pairs(chunks(fields[2], ChunkSize), <<>>)

\* str::lines(): the pieces ended by "\n" (and a last piece without one),
\* each without its "\n" and without a "\r" right before that "\n".
strip_line(piece) ==
    IF piece # <<>> /\ piece[Len(piece)] = "\r"
    THEN SubSeq(piece, 1, Len(piece) - 1)
    ELSE piece

RECURSIVE lines(_, _)
lines(text, piece) ==
    IF text = <<>> THEN (IF piece = <<>> THEN <<>> ELSE <<piece>>)
    ELSE IF Head(text) = "\n" THEN <<strip_line(piece)>> \o lines(Tail(text), <<>>)
    ELSE lines(Tail(text), Append(piece, Head(text)))

\* str::starts_with
starts_with(s, prefix) ==
    Len(prefix) <= Len(s) /\ SubSeq(s, 1, Len(prefix)) = prefix

\* A faulty loop that goes on to the next line when the line with the key has
\* no comma (it is what C8_FirstKeyLineDecides is shown to tell from the real
\* one).
RECURSIVE scan_lines_past_malformed(_)
scan_lines_past_malformed(ls) ==
    IF ls = <<>> THEN Err(NotFoundError)
    ELSE IF starts_with(Head(ls), ADDRESS_CODE)
            /\ (get_coded_pairs(Head(ls)) # Err(SplitError) \/ Len(ls) = 1)
         THEN get_coded_pairs(Head(ls))
    ELSE scan_lines_past_malformed(Tail(ls))

\* The for loop of get_coded_schedule over the remaining lines.
RECURSIVE scan_lines(_)
scan_lines(ls) ==
    IF ls = <<>> THEN Err(NotFoundError)
    ELSE IF starts_with(Head(ls), ADDRESS_CODE) THEN get_coded_pairs(Head(ls))
    ELSE scan_lines(Tail(ls))

get_coded_schedule(text_result) == scan_lines(lines(text_result, <<>>))

\* get_schedule: `?` on get_coded_schedule, then the decode_data map.
get_schedule(schedule_string) ==
    LET coded == get_coded_schedule(schedule_string)
    IN IF coded.kind = "Ok" THEN collect_decoded(coded.value, <<>>) ELSE coded

-----------------------------------------------------------------------------
(* The tomorrow matcher *)

\* A faulty scan that keeps the last entry of the date (it is what
\* C6_FirstEntryOfTomorrow is shown to tell from the real one).
RECURSIVE last_on(_, _)
last_on(sched, date) ==
    IF sched = <<>> THEN None
    ELSE IF sched[Len(sched)][1] = date THEN Some(sched[Len(sched)][2])
    ELSE last_on(SubSeq(sched, 1, Len(sched) - 1), date)

\* The for loop of get_tomorrows_bin: the bin of the first entry of the date.
RECURSIVE first_on(_, _)
first_on(sched, date) ==
    IF sched = <<>> THEN None
    ELSE IF Head(sched)[1] = date THEN Some(Head(sched)[2])
    ELSE first_on(Tail(sched), date)

\* A faulty matcher that compares with today, without the added day (it is
\* what C2_OneMessageOnlyForTomorrow is shown to tell from the real one).
get_todays_bin(sched, today) == first_on(sched, today)

\* get_tomorrows_bin, with the date Local::now().date_naive() gave as `today`.
get_tomorrows_bin(sched, today) == first_on(sched, add_one_day(today))

-----------------------------------------------------------------------------
(* The inputs of a run: the fetched text and the clock *)

MaxTokens == 2

\* 5-character groups: a date code and a bin code.
TokenPool ==
    { <<"5", "5", "9", "H", "B">>,    \* 240101, Black Bin
      <<"5", "5", "9", "H", "T">>,    \* 240101, an unknown bin code
      <<"5", "5", "9", "I", "R">>,    \* 240102, Brown Bin
      <<"5", "5", "D", "1", "G">>,    \* 240229, Green Bin
      <<"5", "5", "9", "h", "x">>,    \* 240101 in lower case, unknown bin code
      <<"5", "5", "9", "G", "B">>,    \* 240100: day 0
      <<"5", "5", "#", "H", "G">>,    \* not a base-36 digit
      <<"1", "0", "0", "0", "B">>,    \* 46656: five decimal digits
      <<"P", "Q", "P", "J", "G">>,    \* 1201015: seven decimal digits
      <<"+", "1", "2", "3", "R">> }   \* a sign, then 1371

RECURSIVE RunsOfTokens(_)
RunsOfTokens(n) ==
    IF n = 0 THEN {<<>>}
    ELSE {t \o r : t \in TokenPool, r \in RunsOfTokens(n - 1)}

\* What follows the whole groups of the selected line: nothing, a partial
\* group of 2 or of 4 characters, or a third comma-separated field.
EndPool == { <<>>, <<"5", "5">>, <<"5", "5", "9", "H">>, <<",", "z">> }

MainLines ==
    { ADDRESS_CODE \o <<"X", ",">> \o r \o e :
        r \in UNION {RunsOfTokens(n) : n \in 0..MaxTokens}, e \in EndPool }

OtherLine == <<"B", "2", ",", "5", "5", "9", "H", "G">>

LowerLine == <<"a", "1", ",", "5", "5", "9", "H", "G">>

NoCommaLine == ADDRESS_CODE \o <<"X">>

LaterLine == ADDRESS_CODE \o <<",", "5", "5", "9", "I", "G">>

BeforePool == { <<>>, <<OtherLine, <<>>, LowerLine>>, <<NoCommaLine>> }

AfterPool == { <<>>, <<LaterLine>> }

EolPool == { <<"\n">>, <<"\r", "\n">> }

RECURSIVE join(_, _)
join(ls, eol) == IF ls = <<>> THEN <<>> ELSE Head(ls) \o eol \o join(Tail(ls), eol)

\* Response bodies: the line of the address between other lines, every line
\* ended by a line break; and a few bodies without the address or without a
\* final line break.
TextPool ==
    { join(b \o <<m>> \o a, eol) :
        b \in BeforePool, m \in MainLines, a \in AfterPool, eol \in EolPool }
    \cup { <<>>,
           join(<<OtherLine, LowerLine>>, <<"\n">>),
           OtherLine \o <<"\n">> \o LaterLine,
           NoCommaLine }

\* Display of the reqwest error of a failed fetch.
TransportFailure == "error sending request for url"

\* Values of Local::now().date_naive()
TodayPool ==
    { Date(2023, 12, 31), Date(2024, 1, 1), Date(2024, 2, 28), Date(2011, 12, 31) }

-----------------------------------------------------------------------------
(* main *)

MainInit ==
    /\ pc = "start"
    /\ client = "none"
    /\ site_response = NotYet
    /\ coded_schedule = NotYet
    /\ schedule = NotYet
    /\ now = NotYet
    /\ result = NotYet
    /\ sent = <<>>

Init == MainInit /\ call = NoCall /\ ret = NotYet

\* initiate_client().expect(..): a client, or a panic of main.
InitiateClient ==
    /\ pc = "start"
    /\ \E built \in BOOLEAN :
          /\ client' = IF built THEN "built" ELSE "failed"
          /\ pc' = IF built THEN "query" ELSE "panicked"
    /\ UNCHANGED <<site_response, coded_schedule, schedule, now, result, sent,
                   call, ret>>

\* query_bin_data(client)? in get_bin: the body, or the transport's error.
QueryBinData ==
    /\ pc = "query"
    /\ \E response \in {Ok(t) : t \in TextPool} \cup {Err(TransportFailure)} :
          /\ site_response' = response
          /\ result' = IF response.kind = "Err" THEN response ELSE result
          /\ pc' = IF response.kind = "Err" THEN "notify" ELSE "extract"
    /\ UNCHANGED <<client, coded_schedule, schedule, now, sent, call, ret>>

\* get_coded_schedule(schedule_string)? in get_schedule
GetCodedSchedule ==
    /\ pc = "extract"
    /\ coded_schedule' = get_coded_schedule(site_response.value)
    /\ result' = IF coded_schedule'.kind = "Err" THEN coded_schedule' ELSE result
    /\ pc' = IF coded_schedule'.kind = "Err" THEN "notify" ELSE "decode"
    /\ UNCHANGED <<client, site_response, schedule, now, sent, call, ret>>

\* .into_iter().map(decode_data).collect() in get_schedule, and the `?` on
\* get_schedule in get_bin; a panic of decode_date ends the process.
DecodeSchedule ==
    /\ pc = "decode"
    /\ schedule' = collect_decoded(coded_schedule.value, <<>>)
    /\ result' = IF schedule'.kind = "Err" THEN schedule' ELSE result
    /\ pc' = CASE schedule'.kind = "Ok" -> "match"
               [] schedule'.kind = "Err" -> "notify"
               [] OTHER -> "panicked"
    /\ UNCHANGED <<client, site_response, coded_schedule, now, sent, call, ret>>

\* Ok(get_tomorrows_bin(schedule)) in get_bin
GetTomorrowsBin ==
    /\ pc = "match"
    /\ \E today \in TodayPool :
          /\ now' = today
          /\ result' = Ok(get_tomorrows_bin(schedule.value, today))
    /\ pc' = "notify"
    /\ UNCHANGED <<client, site_response, coded_schedule, schedule, sent,
                   call, ret>>

\* send_notification: the message is posted and the outcome of the post is
\* dropped.
send_notification(message) == sent' = Append(sent, message)

\* The arms of the match in main.
NotifyError ==
    /\ pc = "notify"
    /\ result.kind = "Err"
    /\ send_notification("Error: " \o result.error)
    /\ pc' = "done"
    /\ UNCHANGED <<client, site_response, coded_schedule, schedule, now, result,
                   call, ret>>

NotifyBin ==
    /\ pc = "notify"
    /\ result.kind = "Ok"
    /\ result.value.some
    /\ send_notification("Put out " \o result.value.value \o " for tomorrow")
    /\ pc' = "done"
    /\ UNCHANGED <<client, site_response, coded_schedule, schedule, now, result,
                   call, ret>>

NotifyNothing ==
    /\ pc = "notify"
    /\ result.kind = "Ok"
    /\ ~result.value.some
    /\ pc' = "done"
    /\ UNCHANGED <<client, site_response, coded_schedule, schedule, now, result,
                   sent, call, ret>>

Next ==
    \/ InitiateClient
    \/ QueryBinData
    \/ GetCodedSchedule
    \/ DecodeSchedule
    \/ GetTomorrowsBin
    \/ NotifyError
    \/ NotifyBin
    \/ NotifyNothing

Spec == Init /\ [][Next]_vars

-----------------------------------------------------------------------------
(* The functions called on their own, as the tests of main.rs call them *)

IdleMain ==
    /\ pc = "idle"
    /\ client = "none"
    /\ site_response = NotYet
    /\ coded_schedule = NotYet
    /\ schedule = NotYet
    /\ now = NotYet
    /\ result = NotYet
    /\ sent = <<>>

Returned(v) == [kind |-> "Returned", value |-> v]

\* decode_date(code) for 4-character codes over a part of the alphabet (digits,
\* letters of both cases, signs, a character that is no digit), and the codes
\* of chosen values.
CodeChars == {"0", "1", "5", "9", "G", "H", "I", "Z", "h", "+", "-", "#"}

ChosenCodes ==
    { <<"5", "5", "D", "1">>,    \* 240229
      <<"4", "X", "N", "8">>,    \* 230228
      <<"4", "X", "N", "9">>,    \* 230229
      <<"5", "5", "I", "N">>,    \* 240431
      <<"5", "6", "6", "T">>,    \* 241301
      <<"2", "5", "5", "R">>,    \* 99999
      <<"2", "5", "5", "S">>,    \* 100000
      <<"L", "F", "L", "R">>,    \* 999999
      <<"L", "F", "L", "S">>,    \* 1000000
      <<"P", "Q", "P", "J">>,    \* 1201015
      <<"Q", "E", "0", "V">>,    \* 1231231
      <<"Z", "Z", "Z", "Z">> }   \* 1679615

CodePool ==
    { <<a, b, c, d>> : a \in CodeChars, b \in CodeChars, c \in CodeChars,
                       d \in CodeChars } \cup ChosenCodes

DecodeInit ==
    /\ IdleMain
    /\ call \in {[fn |-> "decode_date", coded_date |-> c] : c \in CodePool}
    /\ ret = NotYet

CallDecodeDate ==
    /\ call.fn = "decode_date"
    /\ ret = NotYet
    /\ ret' = decode_date(call.coded_date)
    /\ UNCHANGED <<main_vars, call>>

SpecDecode == DecodeInit /\ [][CallDecodeDate]_vars

\* get_coded_pairs(line) for "t", "t,<run>" and "t,<run>,b", the run being any
\* sequence of at most MaxRun characters of RunChars.
MaxRun == 11

RunChars == {"a", "5"}

RECURSIVE RunsOfLength(_)
RunsOfLength(n) ==
    IF n = 0 THEN {<<>>}
    ELSE {Append(r, c) : r \in RunsOfLength(n - 1), c \in RunChars}

RunPool == UNION {RunsOfLength(n) : n \in 0..MaxRun}

PairsInit ==
    /\ IdleMain
    /\ call \in {[fn |-> "get_coded_pairs", coded_data |-> <<"t">>]}
          \cup {[fn |-> "get_coded_pairs", coded_data |-> <<"t", ",">> \o r \o e] :
                  r \in RunPool, e \in {<<>>, <<",", "b">>}}
    /\ ret = NotYet

CallGetCodedPairs ==
    /\ call.fn = "get_coded_pairs"
    /\ ret = NotYet
    /\ ret' = get_coded_pairs(call.coded_data)
    /\ UNCHANGED <<main_vars, call>>

SpecPairs == PairsInit /\ [][CallGetCodedPairs]_vars

\* get_tomorrows_bin(schedule) at a date `today`, for schedules of at most
\* MaxEntries entries.
MaxEntries == 2

ClockPool ==
    { Date(2023, 12, 31), Date(2024, 1, 1), Date(2024, 2, 28), Date(2024, 2, 29),
      Date(2023, 2, 28), Date(2024, 4, 30), Date(2100, 2, 28) }

EntryPool ==
    { <<d, b>> :
        d \in { Date(2024, 1, 1), Date(2024, 1, 2), Date(2024, 2, 29),
                Date(2024, 3, 1), Date(2023, 3, 1), Date(2024, 5, 1),
                Date(2025, 1, 1), Date(2023, 12, 31) },
        b \in { "Black Bin", "Green Bin" } }

RECURSIVE SchedulesOfLength(_)
SchedulesOfLength(n) ==
    IF n = 0 THEN {<<>>}
    ELSE {Append(s, e) : s \in SchedulesOfLength(n - 1), e \in EntryPool}

TomorrowInit ==
    /\ IdleMain
    /\ call \in {[fn |-> "get_tomorrows_bin", schedule |-> s, today |-> d] :
                   s \in UNION {SchedulesOfLength(n) : n \in 0..MaxEntries},
                   d \in ClockPool}
    /\ ret = NotYet

CallGetTomorrowsBin ==
    /\ call.fn = "get_tomorrows_bin"
    /\ ret = NotYet
    /\ ret' = Returned(get_tomorrows_bin(call.schedule, call.today))
    /\ UNCHANGED <<main_vars, call>>

SpecTomorrow == TomorrowInit /\ [][CallGetTomorrowsBin]_vars

-----------------------------------------------------------------------------
(* What the properties below are stated with: the base-36 value of a code, *)
(* the civil calendar, fields and groups of a line, all defined directly   *)
(* rather than through the operators above.                                *)

Base36Digits ==
    <<"0", "1", "2", "3", "4", "5", "6", "7", "8", "9", "A", "B", "C", "D", "E",
      "F", "G", "H", "I", "J", "K", "L", "M", "N", "O", "P", "Q", "R", "S", "T",
      "U", "V", "W", "X", "Y", "Z">>

Base36LowerDigits ==
    <<"0", "1", "2", "3", "4", "5", "6", "7", "8", "9", "a", "b", "c", "d", "e",
      "f", "g", "h", "i", "j", "k", "l", "m", "n", "o", "p", "q", "r", "s", "t",
      "u", "v", "w", "x", "y", "z">>

InAlphabet(c) ==
    \E i \in 1..36 : Base36Digits[i] = c \/ Base36LowerDigits[i] = c

DigitValue(c) ==
    (CHOOSE i \in 1..36 : Base36Digits[i] = c \/ Base36LowerDigits[i] = c) - 1

AllInAlphabet(code) == \A i \in 1..Len(code) : InAlphabet(code[i])

ValueOf(code) ==
    DigitValue(code[1]) * 46656 + DigitValue(code[2]) * 1296
        + DigitValue(code[3]) * 36 + DigitValue(code[4])

SixDigits(v) == v >= 100000 /\ v <= 999999

LeapYear(y) == y % 400 = 0 \/ (y % 4 = 0 /\ y % 100 # 0)

MonthLengths == <<31, 28, 31, 30, 31, 30, 31, 31, 30, 31, 30, 31>>

CalendarDate(y, m, d) ==
    /\ m \in 1..12
    /\ d >= 1
    /\ d <= MonthLengths[m] + (IF m = 2 /\ LeapYear(y) THEN 1 ELSE 0)

DaysBeforeMonth == <<0, 31, 59, 90, 120, 151, 181, 212, 243, 273, 304, 334>>

\* The number of the day in the proleptic Gregorian calendar.
DayNumber(date) ==
    365 * (date.year - 1) + ((date.year - 1) \div 4) - ((date.year - 1) \div 100)
        + ((date.year - 1) \div 400) + DaysBeforeMonth[date.month]
        + (IF date.month > 2 /\ LeapYear(date.year) THEN 1 ELSE 0) + date.day

IsTomorrowOf(date, today) == DayNumber(date) = DayNumber(today) + 1

Least(S) == CHOOSE i \in S : \A j \in S : i <= j

Commas(line) == {i \in 1..Len(line) : line[i] = ","}

\* The second comma-separated field of a line that has a comma.
SecondField(line) ==
    LET first == Least(Commas(line))
        later == {i \in Commas(line) : i > first} \cup {Len(line) + 1}
    IN SubSeq(line, first + 1, Least(later) - 1)

\* The groups of a run whose length is a multiple of 5.
GroupsOf(run) ==
    [i \in 1..(Len(run) \div 5) |->
        <<SubSeq(run, 5 * (i - 1) + 1, 5 * (i - 1) + 4), run[5 * (i - 1) + 5]>>]

Tokenized(run) ==
    IF Len(run) % 5 = 0 THEN Ok(GroupsOf(run)) ELSE Err(LengthError)

LabelOf(c) ==
    IF c = "B" THEN "Black Bin"
    ELSE IF c = "G" THEN "Green Bin"
    ELSE IF c = "R" THEN "Brown Bin"
    ELSE "Unknown Bin '" \o c \o "'"

ErrorDescriptions ==
    { TransportFailure, NotFoundError, SplitError, LengthError, InvalidDigit,
      EmptyString, DateConversionFailure }

Ended == pc \in {"done", "panicked"}

-----------------------------------------------------------------------------
(* decode_date on its own (SpecDecode) *)

DecodeReturned == call.fn = "decode_date" /\ ret # NotYet

\* C4: a code of base-36 digits whose value does not have exactly 6 decimal
\* digits makes decode_date return an error: no panic, and no date read from
\* the first six of seven digits.
C4_OtherLengthsAreErrors ==
    (DecodeReturned /\ AllInAlphabet(call.coded_date)
        /\ ~SixDigits(ValueOf(call.coded_date)))
    => ret.kind = "Err"

\* C5: a code of base-36 digits whose value is the 6 decimal digits yymmdd
\* decodes to the date (2000 + yy, mm, dd) when that is a calendar date and to
\* an error when it is not; "559H" is 2024-01-01, "559I" is 2024-01-02 and
\* "559G" is an error.
C5_SixDigitsDecode ==
    (DecodeReturned /\ AllInAlphabet(call.coded_date)
        /\ SixDigits(ValueOf(call.coded_date)))
    => LET v == ValueOf(call.coded_date)
           y == 2000 + (v \div 10000)
           m == (v \div 100) % 100
           d == v % 100
       IN /\ IF CalendarDate(y, m, d) THEN ret = Ok(Date(y, m, d))
                                      ELSE ret.kind = "Err"
          /\ call.coded_date = <<"5", "5", "9", "H">> => ret = Ok(Date(2024, 1, 1))
          /\ call.coded_date = <<"5", "5", "9", "I">> => ret = Ok(Date(2024, 1, 2))
          /\ call.coded_date = <<"5", "5", "9", "G">> => ret.kind = "Err"

\* C5, the case: the leap day 240229 ("55D1") was decoded to 2024-02-29.
C5_Witness ==
    /\ DecodeReturned
    /\ call.coded_date = <<"5", "5", "D", "1">>
    /\ ret = Ok(Date(2024, 2, 29))

\* C9: a code with a character outside 0-9, a-z, A-Z (a leading sign
\* included) makes decode_date return an error: no date and no panic.
C9_OutsideAlphabetIsError ==
    (DecodeReturned /\ ~AllInAlphabet(call.coded_date)) => ret.kind = "Err"

-----------------------------------------------------------------------------
(* get_coded_pairs on its own (SpecPairs) *)

PairsReturned == call.fn = "get_coded_pairs" /\ ret # NotYet

\* C3: for a line with a comma, whose second comma-separated field is a run
\* of n characters: when 5 divides n (0 included) the result is the n/5 pairs
\* in order, pair i being (characters 5i..5i+3, character 5i+4); otherwise it
\* is the length error, with no pairs.
C3_GroupsOfFive ==
    (PairsReturned /\ Commas(call.coded_data) # {})
    => LET run == SecondField(call.coded_data)
           n == Len(run)
       IN IF n % 5 = 0
          THEN /\ ret.kind = "Ok"
               /\ Len(ret.value) = n \div 5
               /\ \A i \in 0..((n \div 5) - 1) :
                     /\ ret.value[i + 1][1] = SubSeq(run, 5 * i + 1, 5 * i + 4)
                     /\ ret.value[i + 1][2] = run[5 * i + 5]
          ELSE ret = Err(LengthError)

\* C3, the case: a run of 10 characters, followed by a third field, gave two
\* pairs that differ.
C3_Witness ==
    /\ PairsReturned
    /\ call.coded_data = <<"t", ",", "a", "a", "a", "5", "5", "5", "5", "a", "a",
                           "a", ",", "b">>
    /\ ret = Ok(<< <<(<<"a", "a", "a", "5">>), "5">>,
                   <<(<<"5", "5", "a", "a">>), "a">> >>)

-----------------------------------------------------------------------------
(* get_tomorrows_bin on its own (SpecTomorrow) *)

TomorrowReturned == call.fn = "get_tomorrows_bin" /\ ret # NotYet

MatchesOf(sched, today) ==
    {i \in 1..Len(sched) : IsTomorrowOf(sched[i][1], today)}

\* C6: the matcher returns the label of the lowest-index entry dated the day
\* after today (across the ends of months and years), and no value exactly
\* when no entry has that date.
C6_FirstEntryOfTomorrow ==
    TomorrowReturned
    => LET matches == MatchesOf(call.schedule, call.today)
       IN IF matches = {}
          THEN ret.value = None
          ELSE ret.value = Some(call.schedule[Least(matches)][2])

\* C6, the case: on 2023-12-31 two entries are dated 2024-01-01 with
\* different labels, and the label of the first was returned.
C6_Witness ==
    /\ TomorrowReturned
    /\ call.today = Date(2023, 12, 31)
    /\ call.schedule = << <<Date(2024, 1, 1), "Green Bin">>,
                          <<Date(2024, 1, 1), "Black Bin">> >>
    /\ ret.value = Some("Green Bin")

-----------------------------------------------------------------------------
(* A run of main (Spec) *)

StartsWithKey(line) ==
    /\ Len(line) >= Len(ADDRESS_CODE)
    /\ \A j \in 1..Len(ADDRESS_CODE) : line[j] = ADDRESS_CODE[j]

FetchedLines == lines(site_response.value, <<>>)

KeyLines == {i \in 1..Len(FetchedLines) : StartsWithKey(FetchedLines[i])}

Extracted == coded_schedule # NotYet

Decoded == schedule # NotYet

\* The tokens whose date decode_date does not decode.
BadTokens ==
    {i \in 1..Len(coded_schedule.value) :
        decode_date(coded_schedule.value[i][1]).kind # "Ok"}

PutOut(label) == "Put out " \o label \o " for tomorrow"

PutOutMessages ==
    {PutOut(LabelOf(coded_schedule.value[i][2])) :
        i \in 1..Len(coded_schedule.value)}

StageFailed ==
    \/ site_response.kind = "Err"
    \/ coded_schedule.kind = "Err"
    \/ (Decoded /\ schedule.kind # "Ok")

\* C1: when the client was built and a stage fails (the fetch, the lookup of
\* the line, the split on the comma, the split into groups of 5, the decoding
\* of a date), the run ends with exactly one notification, "Error: " and the
\* description of the error, and never without one.
C1_EveryFailureIsNotified ==
    (Ended /\ client = "built" /\ StageFailed)
    => sent \in {<<"Error: " \o e>> : e \in ErrorDescriptions}

\* C2: at most one notification is sent in a run; and when the fetch and the
\* decoding succeeded, the run ends with the one message "Put out <label> for
\* tomorrow" for an entry dated tomorrow if there is one, and with no
\* message if there is none.
C2_OneMessageOnlyForTomorrow ==
    /\ Len(sent) <= 1
    /\ (pc = "done" /\ coded_schedule.kind = "Ok" /\ schedule.kind = "Ok")
       => LET matches == MatchesOf(schedule.value, now)
          IN IF matches = {}
             THEN sent = <<>>
             ELSE \E i \in matches :
                     sent = <<PutOut(LabelOf(coded_schedule.value[i][2]))>>

\* C2, the case: the second of two entries is dated tomorrow and its label
\* was sent.
C2_Witness ==
    /\ pc = "done"
    /\ schedule.kind = "Ok"
    /\ now = Date(2023, 12, 31)
    /\ schedule.value = << <<Date(2024, 1, 2), "Brown Bin">>,
                           <<Date(2024, 1, 1), "Black Bin">> >>
    /\ sent = <<"Put out Black Bin for tomorrow">>

\* C7: the schedule decoder returns one entry per token, in order, when
\* every date decodes, and otherwise fails with the error of the earliest
\* token whose date does not decode; and then no "Put out" message is sent.
C7_AllEntriesOrFirstError ==
    Decoded
    => LET tokens == coded_schedule.value
       IN /\ IF BadTokens = {}
             THEN /\ schedule.kind = "Ok"
                  /\ Len(schedule.value) = Len(tokens)
                  /\ \A i \in 1..Len(tokens) :
                        schedule.value[i] =
                            <<decode_date(tokens[i][1]).value, LabelOf(tokens[i][2])>>
             ELSE /\ schedule.kind = "Err"
                  /\ schedule = decode_date(tokens[Least(BadTokens)][1])
          /\ BadTokens # {} => \A k \in 1..Len(sent) : sent[k] \notin PutOutMessages

\* C8: the tokens extracted are decided by the first line that starts with
\* the address key: "not found" when there is none, the split error when that
\* line has no comma, and otherwise the groups of its second comma-separated
\* field; later lines that start with the key change nothing.
C8_FirstKeyLineDecides ==
    Extracted
    => IF KeyLines = {}
       THEN coded_schedule = Err(NotFoundError)
       ELSE LET line == FetchedLines[Least(KeyLines)]
            IN IF Commas(line) = {}
               THEN coded_schedule = Err(SplitError)
               ELSE coded_schedule = Tokenized(SecondField(line))

\* C8, the case: the first line with the key has no comma, a later line with
\* the key has one, and the split error was returned.
C8_Witness ==
    /\ Extracted
    /\ KeyLines # {}
    /\ Commas(FetchedLines[Least(KeyLines)]) = {}
    /\ \E i \in KeyLines : Commas(FetchedLines[i]) # {}
    /\ coded_schedule = Err(SplitError)

\* C10: every bin code has a label ("Black Bin" for B, "Green Bin" for G,
\* "Brown Bin" for R, "Unknown Bin 'c'" for any other c), so the decoding
\* fails only when a date does not decode; and when the first entry dated
\* tomorrow has an unknown code c, "Put out Unknown Bin 'c' for tomorrow" is
\* sent.
C10_UnknownBinsAreLabelled ==
    /\ (Decoded /\ schedule.kind = "Ok")
       => \A i \in 1..Len(schedule.value) :
             schedule.value[i][2] = LabelOf(coded_schedule.value[i][2])
    /\ (Decoded /\ schedule.kind # "Ok") => BadTokens # {}
    /\ (pc = "done" /\ coded_schedule.kind = "Ok" /\ schedule.kind = "Ok"
           /\ MatchesOf(schedule.value, now) # {})
       => LET c == coded_schedule.value[Least(MatchesOf(schedule.value, now))][2]
          IN c \notin {"B", "G", "R"}
             => sent = <<"Put out Unknown Bin '" \o c \o "' for tomorrow">>

\* C10, the case: the entry dated tomorrow has the bin code T, after an entry
\* of another day, and its label was sent.
C10_Witness ==
    /\ pc = "done"
    /\ coded_schedule.kind = "Ok"
    /\ Len(coded_schedule.value) = 2
    /\ coded_schedule.value[2][2] = "T"
    /\ sent = <<"Put out Unknown Bin 'T' for tomorrow">>

=============================================================================
